---- MODULE Spec2Model ----
(***************************************************************************)
(* Model of reblase/src/blaseball/hooks.ts: the data hooks that bind the   *)
(* Reblase components to the Chronicler API through SWR.                   *)
(*                                                                         *)
(*  Spec          useGameUpdates: one mounted component instance, its SWR  *)
(*                cache entry, its interval timer and its poll requests.   *)
(*  SpecHooks     the plain useSWR hooks, as functions of what the fetch   *)
(*                layer reports.                                           *)
(*  SpecTemporal  useTemporal: the page loop of useSWRInfinite driven by   *)
(*                the hook's key function.                                 *)
(*                                                                         *)
(* JavaScript values: `undefined` data is the empty tuple and a present    *)
(* value x is <<x>>; an absent error is the string "undefined".            *)
(***************************************************************************)
EXTENDS Integers, Sequences, FiniteSets, Bags, TLC

\* ---------------------------------------------------------------- bounds
MaxUpdates == 2
MaxInFlight == 2

\* ------------------------------------------------------------ JS values
Undefined == <<>>
Some(x) == <<x>>
NoError == "undefined"
Errors == {"e1", "e2"}
NoCursor == 0
NoCount == 0

Last(s) == s[Len(s)]
Take(s, n) == SubSeq(s, 1, IF Len(s) < n THEN Len(s) ELSE n)

VARIABLES
    serverLen,      \* number of updates of the game Chronicler holds so far
    mounted,        \* the component instance is mounted
    memoQuery,      \* the caller passes one query object on every render
    query,          \* the query object of the most recent render
    autoRefresh,    \* the autoRefresh argument of the most recent render
    swrKey,         \* the URL useSWR was given by the most recent render
    cache,          \* SWR: URL -> what it reports for that URL
    extraUpdates,   \* React state of line 57
    ret,            \* what the most recent render returned
    timers,         \* active interval timers, each with its closure
    inflight,       \* bag of poll requests whose callback is suspended at an await
    ev              \* the last step taken

gvars == <<serverLen, mounted, memoQuery, query, autoRefresh, swrKey, cache, extraUpdates,
           ret, timers, inflight, ev>>

VARIABLES
    hook,           \* the hook the component calls
    resA,           \* what useSWR reports for the hook's (first) request
    resB,           \* usePlayerTeamsList: what useSWR reports for teams
    out             \* what the hook returned on the most recent render

hvars == <<hook, resA, resB, out>>

VARIABLES
    tChain,         \* number of pages Chronicler's cursor chain has
    tCache,         \* the pages useSWRInfinite has loaded, in request order,
                    \* each named by its number in Chronicler's chain
    tPending,       \* the page URL being fetched, if any
    tFailed,        \* the page loop was aborted by a failed fetch
    tRes            \* what useSWRInfinite reports: the page list and the error

tvars == <<tChain, tCache, tPending, tFailed, tRes>>

\* ------------------------------------------------------- useGameUpdates
\* The query object as the caller builds it: no count, no cursor.
CallerQuery == [count |-> NoCount, after |-> NoCursor]

\* The query argument of a render: a caller either keeps its query object from
\* render to render (memoQuery) or builds a new one in every render.
QueryArg == IF memoQuery THEN query ELSE CallerQuery

GameUpdatesCount == 1000

\* chroniclerApi.gameUpdates(query): the URL, one component per query field.
gameUpdatesUrl(q) == <<"/games/updates", q.count, q.after>>

Cursors == 0..MaxUpdates
Urls == {gameUpdatesUrl([count |-> GameUpdatesCount, after |-> a]) : a \in Cursors}

\* Chronicler's answer to a URL: the updates later than `after`, oldest first,
\* at most `count` of them.  An update is identified by its timestamp.
ServerResponse(url, n) ==
    [data |-> Take([i \in 1..(IF n > url[3] THEN n - url[3] ELSE 0) |->
                       [timestamp |-> url[3] + i]], url[2])]

\* initialData?.data ?? []
DataOrEmpty(d) == IF d = Undefined THEN <<>> ELSE d[1].data

\* Lines 60 and 83-87.
useGameUpdatesReturn(initialData, error, extra) ==
    [updates |-> DataOrEmpty(initialData) \o extra,
     isLoading |-> (initialData = Undefined),
     error |-> error]

\* Mutant: the effect never clears the timer of the previous run.
EffectNoCleanup(old, closure) == Append(old, closure)

\* Mutant: the dependency list names autoRefresh alone, so the timer and its
\* closure are kept while autoRefresh stays what it was.
EffectAutoRefreshOnly(old, closure) ==
    IF old # <<>> /\ old[1].autoRefresh = closure.autoRefresh THEN old ELSE <<closure>>

\* Lines 63-81: allUpdates is a new array on every render, so the dependency
\* list differs on every render: the previous run's cleanup clears its timer
\* and a new timer is set with this render's closure.
Effect(old, closure) == <<closure>>

\* Line 80: the cleanup of the last effect run.
Cleanup(old) == <<>>

\* One run of the function component (lines 51-88) and of its effect.
Render(q, ar, c, extra) ==
    LET q1 == [q EXCEPT !.count = GameUpdatesCount]
        url == gameUpdatesUrl(q1)
        r == useGameUpdatesReturn(c[url].data, c[url].error, extra)
    IN  /\ query' = q1
        /\ autoRefresh' = ar
        /\ swrKey' = url
        /\ ret' = r
        /\ timers' = Effect(timers, [autoRefresh |-> ar,
                                     allUpdates |-> r.updates,
                                     extraUpdates |-> extra])

EmptyCache == [u \in Urls |-> [data |-> Undefined, error |-> NoError]]

GInit ==
    /\ serverLen \in 0..MaxUpdates
    /\ mounted = TRUE
    /\ memoQuery \in BOOLEAN
    /\ autoRefresh \in BOOLEAN
    /\ query = [CallerQuery EXCEPT !.count = GameUpdatesCount]
    /\ swrKey = gameUpdatesUrl(query)
    /\ cache = EmptyCache
    /\ extraUpdates = <<>>
    /\ ret = useGameUpdatesReturn(Undefined, NoError, <<>>)
    /\ timers = <<[autoRefresh |-> autoRefresh, allUpdates |-> <<>>,
                   extraUpdates |-> <<>>]>>
    /\ inflight = EmptyBag
    /\ ev = [kind |-> "other"]

\* The parent renders the component again; autoRefresh may change.
ParentRender(ar) ==
    /\ mounted
    /\ Render(QueryArg, ar, cache, extraUpdates)
    /\ ev' = [kind |-> "other"]
    /\ UNCHANGED <<serverLen, mounted, memoQuery, cache, extraUpdates, inflight>>
    /\ UNCHANGED <<hvars, tvars>>

\* SWR loads (or revalidates) the URL of the most recent render and renders.
SWRLoaded ==
    /\ mounted
    /\ cache' = [cache EXCEPT ![swrKey] =
                    [data |-> Some(ServerResponse(swrKey, serverLen)),
                     error |-> NoError]]
    /\ Render(QueryArg, autoRefresh, cache', extraUpdates)
    /\ ev' = [kind |-> "other"]
    /\ UNCHANGED <<serverLen, mounted, memoQuery, extraUpdates, inflight>>
    /\ UNCHANGED <<hvars, tvars>>

\* SWR's request for the URL of the most recent render fails; SWR keeps the
\* data it had.
SWRFailed(e) ==
    /\ mounted
    /\ cache' = [cache EXCEPT ![swrKey].error = e]
    /\ Render(QueryArg, autoRefresh, cache', extraUpdates)
    /\ ev' = [kind |-> "other"]
    /\ UNCHANGED <<serverLen, mounted, memoQuery, extraUpdates, inflight>>
    /\ UNCHANGED <<hvars, tvars>>

\* The game goes on: Chronicler records one more update.
ServerProduce ==
    /\ serverLen < MaxUpdates
    /\ serverLen' = serverLen + 1
    /\ ev' = [kind |-> "other"]
    /\ UNCHANGED <<mounted, memoQuery, query, autoRefresh, swrKey, cache, extraUpdates,
                   ret, timers, inflight>>
    /\ UNCHANGED <<hvars, tvars>>

\* Lines 64-74: the interval callback up to its first await.
Tick(i) ==
    /\ i \in 1..Len(timers)
    /\ LET c == timers[i] IN
       IF ~c.autoRefresh \/ Len(c.allUpdates) = 0
       THEN /\ ev' = [kind |-> "other"]
            /\ UNCHANGED <<query, inflight>>
       ELSE /\ BagCardinality(inflight) < MaxInFlight
            /\ query' = [query EXCEPT !.after = Last(c.allUpdates).timestamp]
            /\ inflight' = inflight (+) SetToBag({[url |-> gameUpdatesUrl(query'),
                                                   extraUpdates |-> c.extraUpdates]})
            /\ ev' = [kind |-> "pollIssued"]
    /\ UNCHANGED <<serverLen, mounted, memoQuery, autoRefresh, swrKey, cache,
                   extraUpdates, ret, timers>>
    /\ UNCHANGED <<hvars, tvars>>

PollOutcomes == {"ok", "fetchRejected", "jsonRejected", "noDataList"}

\* Mutant: a body without a data list is read as an empty list.
PollThrowsLenient(outcome) == outcome \in {"fetchRejected", "jsonRejected"}

\* Lines 74-78: await fetch(...) and await response.json() throw when the
\* promise is rejected, and spreading json.data throws when it is no list.
PollThrows(outcome) == outcome \in {"fetchRejected", "jsonRejected", "noDataList"}

\* Lines 74-78: the rest of the interval callback, run when the request r
\* settles; Chronicler answers with the updates it holds then.
\* setExtraUpdates on an unmounted component does nothing.
PollSettled(r, outcome) ==
    /\ BagIn(r, inflight)
    /\ inflight' = inflight (-) SetToBag({r})
    /\ LET json == IF outcome = "ok" THEN ServerResponse(r.url, serverLen)
                                     ELSE [data |-> <<>>]
       IN  /\ ev' = [kind |-> IF outcome = "ok" THEN "pollAnswered" ELSE "pollFailed"]
           /\ IF PollThrows(outcome) \/ ~mounted
              THEN UNCHANGED <<query, autoRefresh, swrKey, extraUpdates, ret, timers>>
              ELSE /\ extraUpdates' = r.extraUpdates \o json.data
                   /\ Render(QueryArg, autoRefresh, cache,
                             extraUpdates')
    /\ UNCHANGED <<serverLen, mounted, memoQuery, cache>>
    /\ UNCHANGED <<hvars, tvars>>

\* The component is unmounted: the effect's cleanup runs.
Unmount ==
    /\ mounted
    /\ mounted' = FALSE
    /\ timers' = Cleanup(timers)
    /\ ev' = [kind |-> "other"]
    /\ UNCHANGED <<serverLen, memoQuery, query, autoRefresh, swrKey, cache,
                   extraUpdates, ret, inflight>>
    /\ UNCHANGED <<hvars, tvars>>

GNext ==
    \/ \E ar \in BOOLEAN : ParentRender(ar)
    \/ SWRLoaded
    \/ SWRFailed("e1")
    \/ ServerProduce
    \/ \E i \in 1..Len(timers) : Tick(i)
    \/ \E r \in BagToSet(inflight), o \in PollOutcomes : PollSettled(r, o)
    \/ Unmount

\* ------------------------------------------------------ the useSWR hooks
MaxItems == 2

Null == "null"
SeqsUpTo(S, n) == UNION {[1..k -> S] : k \in 0..n}

\* Items of a Chronicler response: an id and the inner data record.
Items == {[id |-> "x", data |-> "a"], [id |-> "y", data |-> "b"]}
Responses == {[data |-> d] : d \in SeqsUpTo(Items, MaxItems)}
\* Pages of temporal updates, as useSWRInfinite collects them.
PageResponses == {[data |-> d, nextPage |-> 0] : d \in SeqsUpTo(Items, 1)}
PageLists == SeqsUpTo(PageResponses, MaxItems)

Loading == [data |-> Undefined, error |-> NoError]

\* a || b on error values: every error object is truthy, undefined is not.
OrElse(a, b) == IF a # NoError THEN a ELSE b

\* Every hook's result is written [items, error, isLoading], whatever the
\* hook calls its items; items is <<v>> for the value v and Undefined for
\* JavaScript's undefined.

\* Mutant: data?.data without the ?? [] default.
useGameListNoDefault(r) ==
    [items |-> IF r.data = Undefined THEN Undefined ELSE Some(r.data[1].data),
     error |-> r.error,
     isLoading |-> (r.data = Undefined)]

\* Lines 35-43.
useGameList(r) ==
    [items |-> Some(DataOrEmpty(r.data)), error |-> r.error,
     isLoading |-> (r.data = Undefined)]

\* Lines 96-104.
useFightUpdates(r) ==
    [items |-> Some(DataOrEmpty(r.data)), error |-> r.error,
     isLoading |-> (r.data = Undefined)]

\* Lines 118-125: the last team of each id.
TeamsObj(teams) ==
    LET ts == DataOrEmpty(teams)
        ids == {ts[i].id : i \in 1..Len(ts)}
        last(id) == CHOOSE i \in 1..Len(ts) :
                        /\ ts[i].id = id
                        /\ \A j \in (i + 1)..Len(ts) : ts[j].id # id
    IN  [id \in ids |-> ts[last(id)]]

\* Mutant: the teams request's error is looked at first.
usePlayerTeamsListTeamsFirst(players, teams) ==
    [items |-> Some(DataOrEmpty(players.data)),
     teams |-> Some(DataOrEmpty(teams.data)),
     teamsObj |-> TeamsObj(teams.data),
     error |-> OrElse(teams.error, players.error),
     isLoading |-> /\ (players.data = Undefined \/ teams.data = Undefined)
                   /\ OrElse(teams.error, players.error) = NoError]

\* Lines 114-134.
usePlayerTeamsList(players, teams) ==
    [items |-> Some(DataOrEmpty(players.data)),
     teams |-> Some(DataOrEmpty(teams.data)),
     teamsObj |-> TeamsObj(teams.data),
     error |-> OrElse(players.error, teams.error),
     isLoading |-> /\ (players.data = Undefined \/ teams.data = Undefined)
                   /\ OrElse(players.error, teams.error) = NoError]

\* Lines 160-165: the pages' items, page after page (the list is halved
\* rather than walked, to keep the evaluation shallow on 999 pages).
RECURSIVE Flatten(_)
Flatten(pages) ==
    IF Len(pages) = 0 THEN <<>>
    ELSE IF Len(pages) = 1 THEN pages[1].data
    ELSE LET h == Len(pages) \div 2
         IN  Flatten(SubSeq(pages, 1, h)) \o Flatten(SubSeq(pages, h + 1, Len(pages)))

\* Lines 160-171.
useTemporalReturn(r) ==
    [items |-> Some(IF r.data = Undefined THEN <<>> ELSE Flatten(r.data[1])),
     error |-> r.error,
     isLoading |-> (r.data = Undefined /\ r.error = NoError)]

\* Lines 180-188: data?.data[0]?.data ?? null.
useSimulation(r) ==
    [items |-> Some(IF r.data = Undefined THEN Null
                    ELSE IF Len(r.data[1].data) = 0 THEN Null
                    ELSE r.data[1].data[1].data),
     error |-> r.error,
     isLoading |-> (r.data = Undefined /\ r.error = NoError)]

\* Lines 195-198: updates is data?.data, left undefined while there is no data.
usePlayerUpdates(r) ==
    [items |-> IF r.data = Undefined THEN Undefined ELSE Some(r.data[1].data),
     error |-> r.error]

\* Lines 206-214.
useFights(r) ==
    [items |-> Some(DataOrEmpty(r.data)), error |-> r.error,
     isLoading |-> (r.data = Undefined)]

\* Lines 222-230.
useStadiums(r) ==
    [items |-> Some(LET d == DataOrEmpty(r.data) IN [i \in 1..Len(d) |-> d[i].data]),
     error |-> r.error,
     isLoading |-> (r.data = Undefined)]

\* useGameUpdates on its first render: no polled updates yet.
useGameUpdatesFirst(r) ==
    LET g == useGameUpdatesReturn(r.data, r.error, <<>>)
    IN  [items |-> Some(g.updates), error |-> g.error, isLoading |-> g.isLoading]

Hooks == {"useGameList", "useGameUpdates", "useFightUpdates", "usePlayerTeamsList",
          "useTemporal", "useSimulation", "usePlayerUpdates", "useFights",
          "useStadiums"}

\* The component function runs: the hook it calls, on what useSWR reports.
HookReturn(h, a, b) ==
    CASE h = "useGameList" -> useGameList(a)
      [] h = "useGameUpdates" -> useGameUpdatesFirst(a)
      [] h = "useFightUpdates" -> useFightUpdates(a)
      [] h = "usePlayerTeamsList" -> usePlayerTeamsList(a, b)
      [] h = "useTemporal" -> useTemporalReturn(a)
      [] h = "useSimulation" -> useSimulation(a)
      [] h = "usePlayerUpdates" -> usePlayerUpdates(a)
      [] h = "useFights" -> useFights(a)
      [] h = "useStadiums" -> useStadiums(a)

\* What the request of hook h can load.
Loadable(h) == IF h = "useTemporal" THEN PageLists ELSE Responses

HIdle ==
    /\ hook = "useGameList"
    /\ resA = Loading
    /\ resB = Loading
    /\ out = HookReturn(hook, resA, resB)

HInit ==
    /\ hook \in Hooks
    /\ resA = Loading
    /\ resB = Loading
    /\ out = HookReturn(hook, resA, resB)

\* The fetch layer loads the request: data set, error cleared, re-render.
FetchLoadedA(d) ==
    /\ resA' = [data |-> Some(d), error |-> NoError]
    /\ out' = HookReturn(hook, resA', resB)
    /\ UNCHANGED <<hook, resB>>
    /\ UNCHANGED <<gvars, tvars>>

\* The fetch layer's request fails: error set, data kept, re-render.
FetchFailedA(e) ==
    /\ resA' = [resA EXCEPT !.error = e]
    /\ out' = HookReturn(hook, resA', resB)
    /\ UNCHANGED <<hook, resB>>
    /\ UNCHANGED <<gvars, tvars>>

FetchLoadedB(d) ==
    /\ hook = "usePlayerTeamsList"
    /\ resB' = [data |-> Some(d), error |-> NoError]
    /\ out' = HookReturn(hook, resA, resB')
    /\ UNCHANGED <<hook, resA>>
    /\ UNCHANGED <<gvars, tvars>>

FetchFailedB(e) ==
    /\ hook = "usePlayerTeamsList"
    /\ resB' = [resB EXCEPT !.error = e]
    /\ out' = HookReturn(hook, resA, resB')
    /\ UNCHANGED <<hook, resA>>
    /\ UNCHANGED <<gvars, tvars>>

HNext ==
    \/ \E d \in Loadable(hook) : FetchLoadedA(d)
    \/ \E e \in Errors : FetchFailedA(e)
    \/ \E d \in Responses : FetchLoadedB(d)
    \/ \E e \in Errors : FetchFailedB(e)

\* ----------------------------------------------------------- useTemporal
MaxChain == 3

NoPage == 0
TemporalCount == 250
initialSize == 999

\* chroniclerApi.temporalUpdates(query): the URL, one component per field.
temporalUpdatesUrl(q) == <<"/temporal/updates", q.count, q.order, q.page>>

\* Mutant: the next page is asked for without its cursor.
getKeyNoCursor(index, previous) ==
    LET q == [count |-> TemporalCount, order |-> "desc", page |-> NoPage]
    IN  IF previous = Undefined THEN Some(temporalUpdatesUrl(q))
        ELSE IF previous[1].nextPage = NoPage THEN Undefined
        ELSE Some(temporalUpdatesUrl(q))

\* Lines 144-155: the key of page `index`, given the page before it; no key
\* (null) ends the loop.
getKey(index, previous) ==
    LET q == [count |-> TemporalCount, order |-> "desc", page |-> NoPage]
    IN  IF previous = Undefined THEN Some(temporalUpdatesUrl(q))
        ELSE IF previous[1].nextPage = NoPage THEN Undefined
        ELSE Some(temporalUpdatesUrl([q EXCEPT !.page = previous[1].nextPage]))

\* Chronicler's page p of temporal updates: its items, newest first, and the
\* cursor of page p + 1 while there is one.  The cursor of page p is p.
PageItems(p) == [k \in 1..(1 + (p % 2)) |-> [id |-> <<p, k>>, data |-> "t"]]
PageNo(url) == IF url[4] = NoPage THEN 1 ELSE url[4]
Page(p, chain) ==
    [data |-> Take(PageItems(p), TemporalCount),
     nextPage |-> IF p < chain THEN p + 1 ELSE NoPage]
ServerPage(url, chain) == Page(PageNo(url), chain)

\* The page list useSWRInfinite holds for the pages numbered in `pages`.
PageList(pages) == [j \in 1..Len(pages) |-> Page(pages[j], tChain)]

\* useSWRInfinite's page loop from page Len(pages) on (line 143, with
\* initialSize of line 157): pages already loaded are taken from the cache;
\* the loop ends at initialSize pages or when getKey gives no key, and the
\* page list is reported only then; otherwise the next page is fetched.
PageLoop(pages) ==
    LET i == Len(pages)
        key == getKey(i, IF i = 0 THEN Undefined ELSE Some(Page(pages[i], tChain)))
    IN  IF i >= initialSize \/ key = Undefined
        THEN /\ tPending' = Undefined
             /\ tRes' = [data |-> Some(PageList(pages)), error |-> NoError]
        ELSE /\ tPending' = key
             /\ tRes' = tRes

\* What useTemporal returns on the render that follows every change of what
\* useSWRInfinite reports.
tRet == useTemporalReturn(tRes)

TInit ==
    /\ tChain \in (1..MaxChain) \cup {initialSize, initialSize + 1}
    /\ tCache = <<>>
    /\ tPending = getKey(0, Undefined)
    /\ tFailed = FALSE
    /\ tRes = Loading

TIdle ==
    /\ tChain = 1
    /\ tCache = <<>>
    /\ tPending = Undefined
    /\ tFailed = FALSE
    /\ tRes = Loading

\* The fetch of the pending page answers; the loop goes on.
TPageLoaded ==
    /\ tPending # Undefined
    /\ tCache' = Append(tCache, PageNo(tPending[1]))
    /\ PageLoop(tCache')
    /\ UNCHANGED <<tChain, tFailed>>
    /\ UNCHANGED <<gvars, hvars>>

\* The fetch of the pending page fails: the loop is aborted, the error is
\* reported and the component renders.
TPageFailed(e) ==
    /\ tPending # Undefined
    /\ tPending' = Undefined
    /\ tFailed' = TRUE
    /\ tRes' = [tRes EXCEPT !.error = e]
    /\ UNCHANGED <<tChain, tCache>>
    /\ UNCHANGED <<gvars, hvars>>

\* SWR retries after an error: the loop runs again over the cached pages.
TRetry ==
    /\ tFailed
    /\ tFailed' = FALSE
    /\ PageLoop(tCache)
    /\ UNCHANGED <<tChain, tCache>>
    /\ UNCHANGED <<gvars, hvars>>

TNext ==
    \/ TPageLoaded
    \/ TPageFailed("e1")
    \/ TRetry

vars == <<gvars, hvars, tvars>>

GIdle ==
    /\ serverLen = 0
    /\ mounted = FALSE
    /\ memoQuery = FALSE
    /\ autoRefresh = FALSE
    /\ query = CallerQuery
    /\ swrKey = gameUpdatesUrl(query)
    /\ cache = EmptyCache
    /\ extraUpdates = <<>>
    /\ ret = useGameUpdatesReturn(Undefined, NoError, <<>>)
    /\ timers = <<>>
    /\ inflight = EmptyBag
    /\ ev = [kind |-> "other"]

Init == GInit /\ HIdle /\ TIdle
Next == GNext
Spec == Init /\ [][Next]_vars

InitHooks == HInit /\ GIdle /\ TIdle
NextHooks == HNext
SpecHooks == InitHooks /\ [][NextHooks]_vars

\* A fetch that is retried for ever succeeds at last, and SWR's retry timer
\* fires.
InitTemporal == TInit /\ GIdle /\ HIdle
NextTemporal == TNext
SpecTemporal ==
    /\ InitTemporal
    /\ [][NextTemporal]_vars
    /\ SF_vars(TPageLoaded)
    /\ WF_vars(TRetry)

\* ================================================================ claims

NoDuplicates(s) == \A i, j \in 1..Len(s) : i # j => s[i] # s[j]

\* The poll requests a step adds to the requests in flight.
Issued == {r \in BagToSet(inflight') : CopiesIn(r, inflight') > CopiesIn(r, inflight)}

\* The URL of the initial load of a caller's query: its fields and count = 1000.
InitialLoadUrl == gameUpdatesUrl([CallerQuery EXCEPT !.count = GameUpdatesCount])

\* C1: whenever a poll response is applied, the updates exposed after it are
\* the updates exposed before it followed by the response's items.
C1_PollOnlyAppends ==
    [][(ev'.kind = "pollAnswered" /\ mounted) =>
          \E r \in BagToSet(inflight) :
              /\ inflight' = inflight (-) SetToBag({r})
              /\ ret'.updates = ret.updates \o ServerResponse(r.url, serverLen).data]_vars

\* C2: a poll whose fetch is rejected, whose body is not JSON or whose JSON has
\* no data list changes neither the exposed updates, error and isLoading nor
\* the polled updates held; the exposed error is always the one SWR reports
\* for the initial-load request.
C2_PollErrorIgnored ==
    /\ [](ret.error = cache[swrKey].error)
    /\ [][ev'.kind = "pollFailed" => (ret' = ret /\ extraUpdates' = extraUpdates)]_vars

C2_Witness ==
    /\ ev.kind = "pollFailed"
    /\ mounted
    /\ Len(extraUpdates) > 0
    /\ BagCardinality(inflight) > 0

\* C3: at most one interval timer is active, none after unmount, and no poll
\* request is issued by an unmounted instance.
C3_SingleTimer ==
    /\ Len(timers) <= 1
    /\ ~mounted => Len(timers) = 0
    /\ ev.kind = "pollIssued" => mounted

C3_Witness ==
    /\ ~mounted
    /\ Len(ret.updates) > 0
    /\ BagCardinality(inflight) > 0

\* C4: the initial-load request of every render is the URL of the caller's
\* query fields with count = 1000; no cursor set by a poll appears in it.
C4_InitialLoadFromCallerQuery == swrKey = InitialLoadUrl

\* C7: a poll request is issued only by a timer tick, on a mounted instance
\* whose most recent render had autoRefresh true and exposed a non-empty list,
\* and its `after` is the timestamp of the last element of that list.
C7_PollCursor ==
    [][(Issued # {} \/ ev'.kind = "pollIssued") =>
          /\ ev'.kind = "pollIssued"
          /\ mounted /\ autoRefresh
          /\ Len(ret.updates) > 0
          /\ Issued # {}
          /\ \A r \in Issued :
                r.url = gameUpdatesUrl([count |-> GameUpdatesCount,
                                        after |-> Last(ret.updates).timestamp])]_vars

C7_Witness ==
    /\ ev.kind = "pollIssued"
    /\ Len(extraUpdates) > 0
    /\ BagCardinality(inflight) = 2

\* C10: the exposed updates never hold the same update twice.
C10_NoDuplicateUpdates == NoDuplicates(ret.updates)

\* The error the fetch layer reports to the hook.
FetchError ==
    IF hook = "usePlayerTeamsList"
    THEN (IF resA.error # NoError THEN resA.error ELSE resB.error)
    ELSE resA.error

\* The hook's data has loaded.
HookLoaded ==
    IF hook = "usePlayerTeamsList"
    THEN resA.data # Undefined /\ resB.data # Undefined
    ELSE resA.data # Undefined

\* C5: the error a hook returns is the error the fetch layer reports for its
\* request; for usePlayerTeamsList the players error when set, else the
\* teams error.
C5_ErrorForwarded == out.error = FetchError

C5_Witness ==
    /\ hook = "usePlayerTeamsList"
    /\ resA.data # Undefined /\ resA.error = NoError
    /\ resB.data # Undefined /\ resB.error = "e2"
    /\ out.error = "e2"

\* C6: the items a hook returns are never undefined: the empty list without
\* data, else the response's items in order (useGameList, useFightUpdates,
\* useFights, players and teams of usePlayerTeamsList), their inner data
\* (useStadiums), and for useSimulation the first item's inner data or null.
C6_NormalizedItems ==
    LET list == IF resA.data = Undefined THEN <<>> ELSE resA.data[1].data
        teams == IF resB.data = Undefined THEN <<>> ELSE resB.data[1].data
    IN  /\ hook \in {"useGameList", "useFightUpdates", "useFights"} =>
              out.items = <<list>>
        /\ hook = "usePlayerTeamsList" =>
              out.items = <<list>> /\ out.teams = <<teams>>
        /\ hook = "useStadiums" =>
              /\ out.items # Undefined
              /\ Len(out.items[1]) = Len(list)
              /\ \A i \in 1..Len(list) : out.items[1][i] = list[i].data
        /\ hook = "useSimulation" =>
              out.items = <<IF Len(list) = 0 THEN Null ELSE list[1].data>>

C6_Witness ==
    /\ hook = "useStadiums"
    /\ resA.data # Undefined
    /\ resA.error # NoError
    /\ out.items = << <<"b", "a">> >>

\* C8: every hook that returns isLoading returns true exactly when its data
\* has not loaded and the fetch layer reports no error.
C8_LoadingIffNoDataNoError ==
    hook # "usePlayerUpdates" =>
        (out.isLoading <=> (~HookLoaded /\ FetchError = NoError))

\* The pages of a chain of n pages, as Chronicler serves them.
ChainPages(n) == [p \in 1..n |-> Page(p, n)]

PagesAsked == IF tChain < initialSize THEN tChain ELSE initialSize

====
